---- MODULE Spec2Model ----
(***************************************************************************)
(* Model of the Hi-C read-pair classification core of hic2frag             *)
(* (src/src/main.rs).  Every function of the core is a pure function of    *)
(* its arguments; the state holds the arguments of a call, the name of the *)
(* function last called and what it returned.  A call that reaches an      *)
(* `unwrap()` of an absent value ends in the result Panic.                 *)
(***************************************************************************)
EXTENDS Integers, Sequences, FiniteSets, TLC

VARIABLES read1, read2, res_frag1, res_frag2, bed_records, res_frag, indexed,
          chrom, op, arg, ret

vars == <<read1, read2, res_frag1, res_frag2, bed_records, res_frag, indexed,
          chrom, op, arg, ret>>

inputs == <<read1, read2, res_frag1, res_frag2, bed_records, chrom>>

(* ------------------------------ bounds -------------------------------- *)
MaxTid   == 1
MaxStart == 2
MaxSpan  == 2
MaxCoord == 2
MaxFrags == 2

(* --------------------------- option values ---------------------------- *)
None    == <<"None">>
Some(x) == <<"Some", x>>
Ok(x)   == <<"Ok", x>>
Panic   == <<"Panic">>

(* ------------------------------ inputs -------------------------------- *)
TidOpts   == {None} \cup {Some(t) : t \in 0..MaxTid}
StartOpts == {None} \cup {Some(s) : s \in 1..MaxStart}
SpanOpts  == {None} \cup {Some(n) : n \in 1..MaxSpan}

Reads == [tid : TidOpts, start : StartOpts, span : SpanOpts,
          rev : BOOLEAN, unmapped : BOOLEAN]

MappedReads == {r \in Reads : ~r.unmapped}

Frags == {f \in [chrom : 0..MaxTid, start : 0..MaxCoord, end : 0..MaxCoord] :
            f.start < f.end}

NoFrag == [chrom |-> 0, start |-> 0, end |-> 1]
NoRead == [tid |-> Some(0), start |-> Some(1), span |-> Some(1),
           rev |-> FALSE, unmapped |-> FALSE]

Policies == {"middle", "start", "left", "other"}
InteractionTypes == {"DE", "RE", "SC", "VI", "FILT"}

RECURSIVE SeqsUpTo(_, _)
SeqsUpTo(S, n) ==
    IF n = 0 THEN {<<>>}
    ELSE LET shorter == SeqsUpTo(S, n - 1)
         IN shorter \cup {Append(s, x) : s \in {t \in shorter : Len(t) = n - 1}, x \in S}

(* ------------------------- the functions ------------------------------ *)

get_read_strand(read) == IF read.rev THEN "-" ELSE "+"

get_read_start(read) ==
    IF read.start = None THEN Panic
    ELSE LET start == read.start[2]
         IN IF read.rev
            THEN IF read.span = None THEN Panic
                 ELSE Ok(start + read.span[2] - 1)
            ELSE Ok(start)

get_read_pos(read, st) ==
    CASE st = "middle" ->
            IF read.start = None THEN Panic
            ELSE IF read.span = None THEN Panic
            ELSE LET start0based == read.start[2] - 1
                 IN Some(start0based + (read.span[2] \div 2))
      [] st = "start" ->
            LET s == get_read_start(read)
            IN IF s = Panic THEN Panic ELSE Some(s[2])
      [] st = "left" ->
            IF read.start = None THEN Panic ELSE Some(read.start[2])
      [] OTHER -> None

is_intra_chrom(r1, r2) ==
    IF r1.tid = None \/ r2.tid = None THEN Panic
    ELSE LET tid2_opt == r2.tid[2]
         IN IF tid2_opt = tid2_opt THEN Some(FALSE) ELSE Some(TRUE)

get_cis_distance(r1, r2) ==
    IF ~r1.unmapped /\ ~r2.unmapped
    THEN LET p1 == get_read_pos(r1, "middle")
             p2 == get_read_pos(r2, "middle")
         IN IF p1 = Panic \/ p2 = Panic THEN Panic
            ELSE IF p1[2] > p2[2] THEN Some(p1[2] - p2[2])
            ELSE Some(p2[2] - p1[2])
    ELSE None

(* argument number i of a call on (r1, r2): the returned references *)
Rd(r1, r2, i) == IF i = 1 THEN r1 ELSE r2

get_ordered_reads(r1, r2) ==
    IF r1.tid = None \/ r2.tid = None THEN None
    ELSE LET tid1 == r1.tid[2]
             tid2 == r2.tid[2]
         IN IF tid1 < tid2 THEN Some(<<1, 2>>)
            ELSE IF tid1 > tid2 THEN Some(<<2, 1>>)
            ELSE LET r1pos_opt == get_read_pos(r1, "middle")
                     r2pos_opt == get_read_pos(r2, "middle")
                 IN IF r1pos_opt = Panic \/ r2pos_opt = Panic THEN Panic
                    ELSE IF r1pos_opt[2] <= r2pos_opt[2] THEN Some(<<1, 2>>)
                    ELSE Some(<<2, 1>>)

(* variant: only frag1 touching frag2 from the left is seen (C2) *)
are_contiguous_fragments_mut(frag1, frag2, chr1, chr2) ==
    IF chr1 # chr2 THEN FALSE
    ELSE frag1.end = frag2.start

are_contiguous_fragments(frag1, frag2, chr1, chr2) ==
    IF chr1 # chr2 THEN FALSE
    ELSE LET frag1_touch_frag2 == frag1.end = frag2.start
             frag2_touch_frag1 == frag1.start = frag2.end
         IN frag2_touch_frag1 \/ frag1_touch_frag2

is_religation(r1, r2, frag1, frag2) ==
    IF r1.tid = None \/ r2.tid = None THEN Panic
    ELSE Ok(are_contiguous_fragments(frag1, frag2, r1.tid[2], r2.tid[2]))

(* variant: the strand test of is_dangling_end in is_self_circle (C1) *)
is_self_circle_mut(r1, r2) ==
    LET o == get_ordered_reads(r1, r2)
    IN IF o = Panic THEN Panic
       ELSE IF o = None THEN Ok(FALSE)
       ELSE Ok(get_read_strand(Rd(r1, r2, o[2][1])) = "+"
               /\ get_read_strand(Rd(r1, r2, o[2][2])) = "-")

is_self_circle(r1, r2) ==
    LET o == get_ordered_reads(r1, r2)
    IN IF o = Panic THEN Panic
       ELSE IF o = None THEN Ok(FALSE)
       ELSE Ok(get_read_strand(Rd(r1, r2, o[2][1])) = "-"
               /\ get_read_strand(Rd(r1, r2, o[2][2])) = "+")

is_dangling_end(r1, r2) ==
    LET o == get_ordered_reads(r1, r2)
    IN IF o = Panic \/ o = None THEN Panic
       ELSE Ok(get_read_strand(Rd(r1, r2, o[2][1])) = "+"
               /\ get_read_strand(Rd(r1, r2, o[2][2])) = "-")

(* variant: the names FR and RF exchanged (C3) *)
orientation_of_mut(r1_strand, r2_strand) ==
    CASE r1_strand = "+" /\ r2_strand = "+" -> "FF"
      [] r1_strand = "-" /\ r2_strand = "-" -> "RR"
      [] r1_strand = "+" /\ r2_strand = "-" -> "RF"
      [] r1_strand = "-" /\ r2_strand = "+" -> "FR"
      [] OTHER -> "Unknown"

orientation_of(r1_strand, r2_strand) ==
    CASE r1_strand = "+" /\ r2_strand = "+" -> "FF"
      [] r1_strand = "-" /\ r2_strand = "-" -> "RR"
      [] r1_strand = "+" /\ r2_strand = "-" -> "FR"
      [] r1_strand = "-" /\ r2_strand = "+" -> "RF"
      [] OTHER -> "Unknown"

get_valid_orientation(r1, r2) ==
    LET o == get_ordered_reads(r1, r2)
    IN IF o = Panic \/ o = None THEN Panic
       ELSE Ok(orientation_of(get_read_strand(Rd(r1, r2, o[2][1])),
                              get_read_strand(Rd(r1, r2, o[2][2]))))

saturating_sub(a, b) == IF a >= b THEN a - b ELSE 0

(* variant: the fragments are not swapped with the reads (C5) *)
pair_fragments_mut(o, f1, f2) == <<f1, f2>>

(* the fragments paired with the ordered reads; o[1] = 2 is ptr::eq(r1, read2) *)
pair_fragments(o, f1, f2) == IF o[1] = 2 THEN <<f2, f1>> ELSE <<f1, f2>>

(* variant: a non-zero default size (C9) *)
pe_size_mut(r1, r2, rfrag1, rfrag2, r1pos, r2pos, interaction_type) ==
    IF interaction_type = "DE" \/ interaction_type = "RE"
    THEN saturating_sub(r2pos, r1pos)
    ELSE IF interaction_type = "SC"
    THEN saturating_sub(r1pos, rfrag1.start) + saturating_sub(rfrag2.end, r2pos)
    ELSE IF interaction_type = "VI"
    THEN (IF get_read_strand(r1) = "+"
          THEN saturating_sub(rfrag1.end, r1pos)
          ELSE saturating_sub(r1pos, rfrag1.start))
         + (IF get_read_strand(r2) = "+"
            THEN saturating_sub(rfrag2.end, r2pos)
            ELSE saturating_sub(r2pos, rfrag2.start))
    ELSE 1

pe_size(r1, r2, rfrag1, rfrag2, r1pos, r2pos, interaction_type) ==
    IF interaction_type = "DE" \/ interaction_type = "RE"
    THEN saturating_sub(r2pos, r1pos)
    ELSE IF interaction_type = "SC"
    THEN LET d1 == saturating_sub(r1pos, rfrag1.start)
             d2 == saturating_sub(rfrag2.end, r2pos)
         IN d1 + d2
    ELSE IF interaction_type = "VI"
    THEN LET dr1 == IF get_read_strand(r1) = "+"
                    THEN saturating_sub(rfrag1.end, r1pos)
                    ELSE saturating_sub(r1pos, rfrag1.start)
             dr2 == IF get_read_strand(r2) = "+"
                    THEN saturating_sub(rfrag2.end, r2pos)
                    ELSE saturating_sub(r2pos, rfrag2.start)
         IN dr1 + dr2
    ELSE 0

get_pe_fragment_size(rd1, rd2, f1, f2, interaction_type) ==
    LET o == get_ordered_reads(rd1, rd2)
    IN IF o = Panic THEN Panic
       ELSE IF o = None THEN None
       ELSE LET r1 == Rd(rd1, rd2, o[2][1])
                r2 == Rd(rd1, rd2, o[2][2])
                rfrags == pair_fragments(o[2], f1, f2)
                r1pos_opt == get_read_pos(r1, "middle")
                r2pos_opt == get_read_pos(r2, "middle")
            IN IF r1pos_opt = Panic \/ r2pos_opt = Panic THEN Panic
               ELSE Some(pe_size(r1, r2, rfrags[1], rfrags[2],
                                 r1pos_opt[2], r2pos_opt[2], interaction_type))

(* ------------------------- the fragment index ------------------------- *)

interval_of(bed) == [start |-> bed.start, stop |-> bed.end, val |-> bed]

(* Lapper::new keeps every interval and sorts them by (start, stop) *)
interval_le(a, b) == a.start < b.start \/ (a.start = b.start /\ a.stop <= b.stop)

RECURSIVE lapper_insert(_, _)
lapper_insert(sorted, iv) ==
    IF sorted = <<>> THEN <<iv>>
    ELSE IF interval_le(Head(sorted), iv)
         THEN <<Head(sorted)>> \o lapper_insert(Tail(sorted), iv)
         ELSE <<iv>> \o sorted

RECURSIVE lapper_new(_)
lapper_new(intervals) ==
    IF intervals = <<>> THEN <<>>
    ELSE lapper_insert(lapper_new(SubSeq(intervals, 1, Len(intervals) - 1)),
                       intervals[Len(intervals)])

(* Lapper::find(start, stop): the intervals that overlap [start, stop) *)
lapper_find(lapper, start, stop) ==
    SelectSeq(lapper, LAMBDA iv : iv.start < stop /\ iv.stop > start)

chrom_intervals(beds, c) ==
    LET on_c == SelectSeq(beds, LAMBDA b : b.chrom = c)
    IN [i \in 1..Len(on_c) |-> interval_of(on_c[i])]

(* variant: insert instead of push, one interval kept per chromosome (C6) *)
convert_vec_to_lapper_mut(beds) ==
    LET chroms == {beds[i].chrom : i \in 1..Len(beds)}
    IN [c \in chroms |->
          LET ivs == chrom_intervals(beds, c)
          IN lapper_new(<<ivs[Len(ivs)]>>)]

convert_vec_to_lapper(beds) ==
    LET chroms == {beds[i].chrom : i \in 1..Len(beds)}
    IN [c \in chroms |-> lapper_new(chrom_intervals(beds, c))]

get_overlapping_restriction_fragment(index, c, read) ==
    LET pos == get_read_pos(read, "middle")
    IN IF pos = Panic THEN Panic
       ELSE IF c \in DOMAIN index
       THEN LET overlapping_frag == lapper_find(index[c], pos[2], pos[2] + 1)
            IN IF Len(overlapping_frag) > 1 THEN None
               ELSE IF Len(overlapping_frag) = 0 THEN None
               ELSE Some(overlapping_frag[1].val)
       ELSE None

(* ------------------------------- calls -------------------------------- *)

(* one call per behaviour: the functions are pure and keep no state *)
Call(name, a, r) ==
    /\ op \in {"init", "convert_vec_to_lapper"}
    /\ op' = name
    /\ arg' = a
    /\ ret' = r
    /\ UNCHANGED <<inputs, res_frag, indexed>>

GetReadPos(st) == Call("get_read_pos", st, get_read_pos(read1, st))

GetReadStart == Call("get_read_start", "", get_read_start(read1))

GetReadStrand == Call("get_read_strand", "", Ok(get_read_strand(read1)))

IsIntraChrom == Call("is_intra_chrom", "", is_intra_chrom(read1, read2))

GetCisDistance == Call("get_cis_distance", "", get_cis_distance(read1, read2))

GetOrderedReads == Call("get_ordered_reads", "", get_ordered_reads(read1, read2))

IsSelfCircle == Call("is_self_circle", "", is_self_circle(read1, read2))

IsDanglingEnd == Call("is_dangling_end", "", is_dangling_end(read1, read2))

GetValidOrientation ==
    Call("get_valid_orientation", "", get_valid_orientation(read1, read2))

IsReligation ==
    Call("is_religation", "", is_religation(read1, read2, res_frag1, res_frag2))

GetPeFragmentSize(interaction_type) ==
    Call("get_pe_fragment_size", interaction_type,
         get_pe_fragment_size(read1, read2, res_frag1, res_frag2, interaction_type))

ConvertVecToLapper ==
    /\ ~indexed
    /\ res_frag' = convert_vec_to_lapper(bed_records)
    /\ indexed' = TRUE
    /\ op' = "convert_vec_to_lapper"
    /\ arg' = ""
    /\ ret' = None
    /\ UNCHANGED inputs

GetOverlappingRestrictionFragment ==
    /\ indexed
    /\ Call("get_overlapping_restriction_fragment", "",
            get_overlapping_restriction_fragment(res_frag, chrom, read1))

(* --------------------------- specifications --------------------------- *)

NoCall ==
    /\ op = "init"
    /\ arg = ""
    /\ ret = None
    /\ res_frag = <<>>
    /\ indexed = FALSE

(* a pair of reads; the functions that take no fragment *)
Init ==
    /\ read1 \in Reads
    /\ read2 \in Reads
    /\ res_frag1 = NoFrag
    /\ res_frag2 = NoFrag
    /\ bed_records = <<>>
    /\ chrom = 0
    /\ NoCall

Next ==
    \/ \E st \in Policies : GetReadPos(st)
    \/ GetReadStart
    \/ GetReadStrand
    \/ IsIntraChrom
    \/ GetCisDistance
    \/ GetOrderedReads
    \/ IsSelfCircle
    \/ IsDanglingEnd
    \/ GetValidOrientation
    \/ \E t \in InteractionTypes : GetPeFragmentSize(t)

Spec == Init /\ [][Next]_vars

(* a pair of reads, each with the fragment it was assigned to; no function  *)
(* of a pair reads a fragment's chromosome name, so it is left at 0        *)
PairFrags == {f \in Frags : f.chrom = 0}

InitFrag ==
    /\ read1 \in MappedReads
    /\ read2 \in MappedReads
    /\ res_frag1 \in PairFrags
    /\ res_frag2 \in PairFrags
    /\ bed_records = <<>>
    /\ chrom = 0
    /\ NoCall

NextFrag ==
    \/ IsReligation
    \/ \E t \in InteractionTypes : GetPeFragmentSize(t)

SpecFrag == InitFrag /\ [][NextFrag]_vars

(* a fragment list, the index built from it and one read to assign *)
IndexReads == {r \in MappedReads : r.tid = Some(0) /\ ~r.rev}

InitIndex ==
    /\ read1 \in IndexReads
    /\ read2 = NoRead
    /\ res_frag1 = NoFrag
    /\ res_frag2 = NoFrag
    /\ bed_records \in SeqsUpTo(Frags, MaxFrags)
    /\ chrom \in 0..MaxTid
    /\ NoCall

NextIndex ==
    \/ ConvertVecToLapper
    \/ GetOverlappingRestrictionFragment

SpecIndex == InitIndex /\ [][NextIndex]_vars

(* ------------------- the vocabulary of the claims --------------------- *)

HasTid(r) == r.tid # None
HasPos(r) == r.start # None /\ r.span # None
Tid(r)    == r.tid[2]
Mid(r)    == (r.start[2] - 1) + (r.span[2] \div 2)
Letter(r) == IF r.rev THEN "R" ELSE "F"
Clamp(x)  == IF x < 0 THEN 0 ELSE x
Abs(x)    == IF x < 0 THEN 0 - x ELSE x

Resolved == HasTid(read1) /\ HasTid(read2) /\ HasPos(read1) /\ HasPos(read2)

(* u is upstream of d: lower chromosome identity, or the same one and a    *)
(* lower-or-equal middle position                                          *)
Precedes(u, d) == Tid(u) < Tid(d) \/ (Tid(u) = Tid(d) /\ Mid(u) <= Mid(d))

FirstIsUp == Precedes(read1, read2)
Up        == IF FirstIsUp THEN read1 ELSE read2
Down      == IF FirstIsUp THEN read2 ELSE read1
FragUp    == IF FirstIsUp THEN res_frag1 ELSE res_frag2
FragDown  == IF FirstIsUp THEN res_frag2 ELSE res_frag1

Pattern(u, d) == <<Letter(u), Letter(d)>>

PatternName(u, d) ==
    CASE Pattern(u, d) = <<"F", "F">> -> "FF"
      [] Pattern(u, d) = <<"R", "R">> -> "RR"
      [] Pattern(u, d) = <<"F", "R">> -> "FR"
      [] Pattern(u, d) = <<"R", "F">> -> "RF"

SameChromPair == Resolved /\ Tid(read1) = Tid(read2)

KnownTypes == {"DE", "RE", "SC", "VI"}

(* ------------------------------- C1 ----------------------------------- *)

(* C1 as stated: on a same-chromosome pair, pattern RF (up Reverse, down   *)
(* Forward) is DanglingEnd, pattern FR is SelfCircle, FF and RR neither.   *)
C1_RF_Is_DanglingEnd ==
    SameChromPair =>
        /\ op = "is_dangling_end" => ret = Ok(Pattern(Up, Down) = <<"R", "F">>)
        /\ op = "is_self_circle" => ret = Ok(Pattern(Up, Down) = <<"F", "R">>)

(* C1 amended: on a same-chromosome pair, is_dangling_end holds exactly    *)
(* for pattern FR (up Forward, down Reverse), is_self_circle exactly for   *)
(* pattern RF (up Reverse, down Forward), so FF and RR are neither; the    *)
(* two are never both reported for one pair.                               *)
C1_FR_Is_DanglingEnd ==
    SameChromPair =>
        /\ op = "is_dangling_end" =>
              /\ ret = Ok(Pattern(Up, Down) = <<"F", "R">>)
              /\ ret = Ok(TRUE) => is_self_circle(read1, read2) = Ok(FALSE)
        /\ op = "is_self_circle" =>
              /\ ret = Ok(Pattern(Up, Down) = <<"R", "F">>)
              /\ ret = Ok(TRUE) => is_dangling_end(read1, read2) = Ok(FALSE)

C1_Witness ==
    /\ SameChromPair
    /\ op = "is_self_circle"
    /\ Pattern(Up, Down) = <<"R", "F">>
    /\ Mid(read1) > Mid(read2)
    /\ ret = Ok(TRUE)

(* ------------------------------- C2 ----------------------------------- *)

(* C2: for two distinct fragments, is_religation holds exactly when the    *)
(* reads have the same chromosome identity and one fragment ends where the *)
(* other starts; the strands of the reads and the order of the two         *)
(* (read, fragment) arguments do not change the result.                    *)
C2_Religation ==
    (op = "is_religation" /\ HasTid(read1) /\ HasTid(read2) /\ res_frag1 # res_frag2) =>
        /\ ret = Ok(/\ Tid(read1) = Tid(read2)
                    /\ \/ res_frag1.end = res_frag2.start
                       \/ res_frag2.end = res_frag1.start)
        /\ ret = is_religation(read2, read1, res_frag2, res_frag1)
        /\ \A b1, b2 \in BOOLEAN :
              ret = is_religation([read1 EXCEPT !.rev = b1], [read2 EXCEPT !.rev = b2],
                                  res_frag1, res_frag2)

C2_Witness ==
    /\ op = "is_religation"
    /\ res_frag1 # res_frag2
    /\ res_frag2.end = res_frag1.start
    /\ read1.rev # read2.rev
    /\ ret = Ok(TRUE)

(* ------------------------------- C3 ----------------------------------- *)

(* C3: when the chromosome identities and middle positions resolve,        *)
(* get_valid_orientation returns the name in {FF, RR, FR, RF} of           *)
(* (strand(up), strand(down)) for a read up that precedes the other read;  *)
(* it never returns "Unknown".                                             *)
C3_Orientation ==
    (op = "get_valid_orientation" /\ Resolved) =>
        /\ \E ud \in {<<read1, read2>>, <<read2, read1>>} :
              /\ Precedes(ud[1], ud[2])
              /\ ret = Ok(PatternName(ud[1], ud[2]))
        /\ ret[2] \in {"FF", "RR", "FR", "RF"}

C3_Witness ==
    /\ op = "get_valid_orientation"
    /\ Resolved
    /\ Tid(read1) > Tid(read2)
    /\ read2.rev /\ ~read1.rev
    /\ ret = Ok("RF")

(* ------------------------------- C4 ----------------------------------- *)

(* C4: swapping (read1, frag1) with (read2, frag2) changes neither the     *)
(* (up, down) roles nor the strand pattern, category or size of a pair of  *)
(* mapped reads.                                                           *)
C4_Symmetric ==
    (~read1.unmapped /\ ~read2.unmapped) =>
    /\ (op = "get_ordered_reads" /\ ret[1] = "Some") =>
          LET swapped == get_ordered_reads(read2, read1)
          IN /\ swapped[1] = "Some"
             /\ Rd(read1, read2, ret[2][1]) = Rd(read2, read1, swapped[2][1])
             /\ Rd(read1, read2, ret[2][2]) = Rd(read2, read1, swapped[2][2])
    /\ op = "is_self_circle" => ret = is_self_circle(read2, read1)
    /\ op = "is_dangling_end" => ret = is_dangling_end(read2, read1)
    /\ op = "get_valid_orientation" => ret = get_valid_orientation(read2, read1)
    /\ op = "get_pe_fragment_size" =>
          ret = get_pe_fragment_size(read2, read1, res_frag2, res_frag1, arg)

(* ------------------------------- C5 ----------------------------------- *)

ReadToBoundary(r, f) ==
    IF r.rev THEN Clamp(Mid(r) - f.start) ELSE Clamp(f.end - Mid(r))

ClaimedSize(t) ==
    CASE t \in {"DE", "RE"} -> Clamp(Mid(Down) - Mid(Up))
      [] t = "SC" -> Clamp(Mid(Up) - FragUp.start) + Clamp(FragDown.end - Mid(Down))
      [] t = "VI" -> ReadToBoundary(Up, FragUp) + ReadToBoundary(Down, FragDown)

(* C5: for a pair whose chromosome identities and middle positions         *)
(* resolve, get_pe_fragment_size pairs each fragment with its read after   *)
(* reordering and returns the size of the category, every subtraction      *)
(* clamped at zero; the result is never negative.                          *)
C5_Size ==
    (op = "get_pe_fragment_size" /\ arg \in KnownTypes /\ Resolved) =>
        /\ ret = Some(ClaimedSize(arg))
        /\ ret[2] >= 0

C5_Witness ==
    /\ op = "get_pe_fragment_size"
    /\ arg = "SC"
    /\ Resolved
    /\ ~FirstIsUp
    /\ res_frag1 # res_frag2
    /\ FragDown.end < Mid(Down)
    /\ Mid(Up) > FragUp.start
    /\ ret[1] = "Some"

(* ------------------------------- C6 ----------------------------------- *)

Containing ==
    {i \in 1..Len(bed_records) :
        /\ bed_records[i].chrom = chrom
        /\ bed_records[i].start <= Mid(read1)
        /\ Mid(read1) < bed_records[i].end}

Occurrences(seq, x) == Cardinality({i \in 1..Len(seq) : seq[i] = x})

(* C6: the read is assigned fragment f exactly when f is the only entry of *)
(* the list on the chromosome whose interval contains the middle position, *)
(* and nothing otherwise; the index holds every entry of the list.         *)
C6_Assign ==
    /\ (op = "get_overlapping_restriction_fragment" /\ HasPos(read1)) =>
          IF Cardinality(Containing) = 1
          THEN ret = Some(bed_records[CHOOSE i \in Containing : TRUE])
          ELSE ret = None
    /\ indexed =>
          \A f \in Frags :
              Occurrences(bed_records, f) =
                  IF f.chrom \in DOMAIN res_frag
                  THEN Occurrences(res_frag[f.chrom], interval_of(f))
                  ELSE 0

C6_Witness ==
    /\ op = "get_overlapping_restriction_fragment"
    /\ HasPos(read1)
    /\ Cardinality(Containing) = 1
    /\ \E i \in 1..Len(bed_records) :
          i \notin Containing /\ bed_records[i].chrom = chrom
    /\ ret[1] = "Some"

(* ------------------------------- C7 ----------------------------------- *)

(* C7: no call of a core function ends in a panic. *)
C7_NoPanic == ret # Panic

(* ------------------------------- C8 ----------------------------------- *)

ZeroBasedPos(r, st) ==
    CASE st = "left" -> r.start[2] - 1
      [] st = "middle" -> (r.start[2] - 1) + (r.span[2] \div 2)
      [] st = "start" -> IF r.rev THEN (r.start[2] - 1) + r.span[2] - 1
                         ELSE r.start[2] - 1

(* C8: get_read_pos returns the 0-based position of each policy. *)
C8_ZeroBased ==
    (op = "get_read_pos" /\ arg \in {"left", "middle", "start"} /\ HasPos(read1)) =>
        ret = Some(ZeroBasedPos(read1, arg))

(* ------------------------------- C9 ----------------------------------- *)

(* C9 as stated: for an interaction type that is none of DE, SC, RE, VI    *)
(* the size is absent, never a number.                                     *)
C9_FilteredAbsent ==
    (op = "get_pe_fragment_size" /\ arg \notin KnownTypes /\ ret # Panic) =>
        ret = None

(* C9 amended: for an interaction type that is none of DE, SC, RE, VI the  *)
(* size is absent when a read has no chromosome identity, and the number 0 *)
(* when both chromosome identities and both middle positions resolve.      *)
C9_FilteredZero ==
    (op = "get_pe_fragment_size" /\ arg \notin KnownTypes) =>
        /\ (~HasTid(read1) \/ ~HasTid(read2)) => ret = None
        /\ Resolved => ret = Some(0)

C9_Witness ==
    /\ op = "get_pe_fragment_size"
    /\ arg = "FILT"
    /\ Resolved
    /\ ret = Some(0)

(* ------------------------------- C10 ---------------------------------- *)

(* C10: get_cis_distance is |middle(read1) - middle(read2)| exactly when   *)
(* both reads are mapped and on the same chromosome, and absent otherwise. *)
C10_CisOnly ==
    (op = "get_cis_distance" /\ Resolved) =>
        ret = IF /\ ~read1.unmapped /\ ~read2.unmapped
                 /\ Tid(read1) = Tid(read2)
              THEN Some(Abs(Mid(read1) - Mid(read2)))
              ELSE None

====
